---- MODULE Spec2Model ----
(***************************************************************************)
(* Model of .github/scripts/build-docs.py: the regex rewrite chain of      *)
(* simple_markdown_to_html and the driver loop of main.                    *)
(*                                                                         *)
(* Text is a sequence of one-character strings, so every pattern of the    *)
(* script is matched character by character exactly as re.sub does:        *)
(* leftmost match first, non-overlapping, scanning resumes at the end of   *)
(* the previous match.                                                     *)
(***************************************************************************)
EXTENDS Integers, Sequences, FiniteSets, TLC

VARIABLES md, html, pc, docs, todo, site, writes

vars == <<md, html, pc, docs, todo, site, writes>>

(***************************************************************************)
(* Character classes of Python's re module.                                *)
(***************************************************************************)
\* \s
Whitespace == {" ", "\t", "\n", "\r", "\f"}

\* \d
Digits == {"0", "1", "2", "3", "4", "5", "6", "7", "8", "9"}

\* \w
WordChars ==
  Digits \cup {"_"} \cup
  {"a", "b", "c", "d", "e", "f", "g", "h", "i", "j", "k", "l", "m",
   "n", "o", "p", "q", "r", "s", "t", "u", "v", "w", "x", "y", "z",
   "A", "B", "C", "D", "E", "F", "G", "H", "I", "J", "K", "L", "M",
   "N", "O", "P", "Q", "R", "S", "T", "U", "V", "W", "X", "Y", "Z"}

(***************************************************************************)
(* Matching primitives.                                                    *)
(***************************************************************************)
\* the literal t occurs in s at position i
StartsAt(s, i, t) ==
  /\ i >= 1
  /\ i + Len(t) - 1 =< Len(s)
  /\ SubSeq(s, i, i + Len(t) - 1) = t

\* ^ under re.MULTILINE: start of the text or just after a newline
LineStart(s, i) == i = 1 \/ s[i - 1] = "\n"

\* (.*?)$ under re.MULTILINE: the first position at or after i that is the
\* end of the text or a newline
RECURSIVE LineEnd(_, _)
LineEnd(s, i) ==
  IF i > Len(s) \/ s[i] = "\n" THEN i ELSE LineEnd(s, i + 1)

\* a greedy run of characters of the class cls starting at i; the position
\* after the run
RECURSIVE SkipClass(_, _, _)
SkipClass(s, i, cls) ==
  IF i =< Len(s) /\ s[i] \in cls THEN SkipClass(s, i + 1, cls) ELSE i

\* (.*?) followed by the literal delim: the lazy group grows one character
\* at a time from position k until delim follows; without re.DOTALL the
\* group cannot take a newline.  0 when there is no match.
RECURSIVE FindLazy(_, _, _, _)
FindLazy(s, k, delim, dotall) ==
  IF k + Len(delim) - 1 > Len(s) THEN 0
  ELSE IF StartsAt(s, k, delim) THEN k
  ELSE IF ~dotall /\ s[k] = "\n" THEN 0
  ELSE FindLazy(s, k + 1, delim, dotall)

\* result of trying a pattern at one position: end = 0 is "no match",
\* otherwise end is the position after the match and rep its replacement
NoMatch == [end |-> 0, rep |-> <<>>]

(***************************************************************************)
(* Literals of the patterns and of the replacement templates.              *)
(***************************************************************************)
\* the backquote character U+0060 (a backquote cannot be written inside a
\* TLA+ string, so the character is named)
Backquote == "BQ"

Fence == <<Backquote, Backquote, Backquote>>
PreOpen == <<"<", "p", "r", "e", ">", "<", "c", "o", "d", "e", ">">>
PreClose == <<"<", "/", "c", "o", "d", "e", ">", "<", "/", "p", "r", "e", ">">>
PreTag == <<"<", "p", "r", "e", ">">>
PreEndTag == <<"<", "/", "p", "r", "e", ">">>
H1Open == <<"<", "h", "1", ">">>
H1Close == <<"<", "/", "h", "1", ">">>
H2Open == <<"<", "h", "2", ">">>
H2Close == <<"<", "/", "h", "2", ">">>
H3Open == <<"<", "h", "3", ">">>
H3Close == <<"<", "/", "h", "3", ">">>
StrongOpen == <<"<", "s", "t", "r", "o", "n", "g", ">">>
StrongClose == <<"<", "/", "s", "t", "r", "o", "n", "g", ">">>
EmOpen == <<"<", "e", "m", ">">>
EmClose == <<"<", "/", "e", "m", ">">>
CodeOpen == <<"<", "c", "o", "d", "e", ">">>
CodeClose == <<"<", "/", "c", "o", "d", "e", ">">>
AHref == <<"<", "a", " ", "h", "r", "e", "f", "=", "\"">>
AMid == <<"\"", ">">>
AClose == <<"<", "/", "a", ">">>
LiOpen == <<"<", "l", "i", ">">>
LiClose == <<"<", "/", "l", "i", ">">>
UlOpen == <<"<", "u", "l", ">">>
UlClose == <<"<", "/", "u", "l", ">">>
POpen == <<"<", "p", ">">>
PClose == <<"<", "/", "p", ">">>
BlankLine == <<"\n", "\n">>
Newline == <<"\n">>

(***************************************************************************)
(* The patterns of simple_markdown_to_html, each tried at one position.    *)
(***************************************************************************)
\* r'```(\w+)?\n(.*?)```' -> r'<pre><code>\2</code></pre>', re.DOTALL
CodeBlockAt(s, i) ==
  IF ~StartsAt(s, i, Fence) THEN NoMatch
  ELSE LET j == SkipClass(s, i + 3, WordChars)
       IN IF j > Len(s) \/ s[j] # "\n" THEN NoMatch
          ELSE LET k == FindLazy(s, j + 1, Fence, TRUE)
               IN IF k = 0 THEN NoMatch
                  ELSE [end |-> k + 3,
                        rep |-> PreOpen \o SubSeq(s, j + 1, k - 1) \o PreClose]

\* r'^<marker>(.*?)$' -> open \1 close, re.MULTILINE
LineAt(s, i, marker, open, close) ==
  IF LineStart(s, i) /\ StartsAt(s, i, marker)
  THEN LET e == LineEnd(s, i + Len(marker))
       IN [end |-> e,
           rep |-> open \o SubSeq(s, i + Len(marker), e - 1) \o close]
  ELSE NoMatch

H3At(s, i) == LineAt(s, i, <<"#", "#", "#", " ">>, H3Open, H3Close)
H2At(s, i) == LineAt(s, i, <<"#", "#", " ">>, H2Open, H2Close)
H1At(s, i) == LineAt(s, i, <<"#", " ">>, H1Open, H1Close)

\* r'<delim>(.*?)<delim>' -> open \1 close
SpanAt(s, i, delim, open, close) ==
  IF ~StartsAt(s, i, delim) THEN NoMatch
  ELSE LET k == FindLazy(s, i + Len(delim), delim, FALSE)
       IN IF k = 0 THEN NoMatch
          ELSE [end |-> k + Len(delim),
                rep |-> open \o SubSeq(s, i + Len(delim), k - 1) \o close]

TripleAt(s, i) ==
  SpanAt(s, i, <<"*", "*", "*">>, StrongOpen \o EmOpen, EmClose \o StrongClose)
DoubleAt(s, i) == SpanAt(s, i, <<"*", "*">>, StrongOpen, StrongClose)
SingleAt(s, i) == SpanAt(s, i, <<"*">>, EmOpen, EmClose)

\* r'`(.*?)`' -> r'<code>\1</code>'
InlineCodeAt(s, i) == SpanAt(s, i, <<Backquote>>, CodeOpen, CodeClose)

\* r'\[(.*?)\]\((.*?)\)' -> r'<a href="\2">\1</a>'
LinkAt(s, i) ==
  IF ~StartsAt(s, i, <<"[">>) THEN NoMatch
  ELSE LET k == FindLazy(s, i + 1, <<"]", "(">>, FALSE)
       IN IF k = 0 THEN NoMatch
          ELSE LET e == FindLazy(s, k + 2, <<")">>, FALSE)
               IN IF e = 0 THEN NoMatch
                  ELSE [end |-> e + 1,
                        rep |-> AHref \o SubSeq(s, k + 2, e - 1) \o AMid
                                \o SubSeq(s, i + 1, k - 1) \o AClose]

\* r'^\- (.*?)$' -> r'<li>\1</li>', re.MULTILINE
DashItemAt(s, i) == LineAt(s, i, <<"-", " ">>, LiOpen, LiClose)

\* r'^\d+\. (.*?)$' -> r'<li>\1</li>', re.MULTILINE
NumItemAt(s, i) ==
  IF ~LineStart(s, i) THEN NoMatch
  ELSE LET j == SkipClass(s, i, Digits)
       IN IF j > i /\ StartsAt(s, j, <<".", " ">>)
          THEN LET e == LineEnd(s, j + 2)
               IN [end |-> e,
                   rep |-> LiOpen \o SubSeq(s, j + 2, e - 1) \o LiClose]
          ELSE NoMatch

\* r'(<li>.*?</li>)' -> r'<ul>\1</ul>', re.DOTALL
ListWrapAt(s, i) ==
  IF ~StartsAt(s, i, LiOpen) THEN NoMatch
  ELSE LET k == FindLazy(s, i + 4, LiClose, TRUE)
       IN IF k = 0 THEN NoMatch
          ELSE [end |-> k + 5,
                rep |-> UlOpen \o SubSeq(s, i, k + 4) \o UlClose]

\* variant of ListMergeAt: the newline between the two containers is left
\* out of the searched text, html.replace('</ul><ul>', '')
ListMergeNoNewlineAt(s, i) ==
  IF StartsAt(s, i, UlClose \o UlOpen)
  THEN [end |-> i + 9, rep |-> <<>>]
  ELSE NoMatch

\* html.replace('</ul>\n<ul>', '\n')
ListMergeAt(s, i) ==
  IF StartsAt(s, i, UlClose \o Newline \o UlOpen)
  THEN [end |-> i + 10, rep |-> Newline]
  ELSE NoMatch

\* r'\n\n' -> '</p><p>'
ParaBreakAt(s, i) ==
  IF StartsAt(s, i, BlankLine)
  THEN [end |-> i + 2, rep |-> PClose \o POpen]
  ELSE NoMatch

\* variant of EmptyParaAt: the pattern has no \s*, r'<p></p>'
EmptyParaNoSpaceAt(s, i) ==
  IF StartsAt(s, i, POpen \o PClose)
  THEN [end |-> i + 7, rep |-> <<>>]
  ELSE NoMatch

\* r'<p>\s*</p>' -> ''
EmptyParaAt(s, i) ==
  IF ~StartsAt(s, i, POpen) THEN NoMatch
  ELSE LET j == SkipClass(s, i + 3, Whitespace)
       IN IF StartsAt(s, j, PClose)
          THEN [end |-> j + 4, rep |-> <<>>]
          ELSE NoMatch

\* <h[1-6]> at position i
HeadingOpenAt(s, i) ==
  /\ i + 3 =< Len(s)
  /\ s[i] = "<" /\ s[i + 1] = "h"
  /\ s[i + 2] \in {"1", "2", "3", "4", "5", "6"}
  /\ s[i + 3] = ">"

\* </h[1-6]> at position i
HeadingCloseAt(s, i) ==
  /\ i + 4 =< Len(s)
  /\ s[i] = "<" /\ s[i + 1] = "/" /\ s[i + 2] = "h"
  /\ s[i + 3] \in {"1", "2", "3", "4", "5", "6"}
  /\ s[i + 4] = ">"

\* variant of UnwrapHeadOpenAt: the class starts at 2, r'<p>(<h[2-6]>)'
UnwrapSubheadOpenAt(s, i) ==
  IF StartsAt(s, i, POpen) /\ HeadingOpenAt(s, i + 3) /\ s[i + 5] # "1"
  THEN [end |-> i + 7, rep |-> SubSeq(s, i + 3, i + 6)]
  ELSE NoMatch

\* r'<p>(<h[1-6]>)' -> r'\1'
UnwrapHeadOpenAt(s, i) ==
  IF StartsAt(s, i, POpen) /\ HeadingOpenAt(s, i + 3)
  THEN [end |-> i + 7, rep |-> SubSeq(s, i + 3, i + 6)]
  ELSE NoMatch

\* r'(</h[1-6]>)</p>' -> r'\1'
UnwrapHeadCloseAt(s, i) ==
  IF HeadingCloseAt(s, i) /\ StartsAt(s, i + 5, PClose)
  THEN [end |-> i + 9, rep |-> SubSeq(s, i, i + 4)]
  ELSE NoMatch

\* r'<p>(<pre>)' -> r'\1'
UnwrapPreOpenAt(s, i) ==
  IF StartsAt(s, i, POpen \o PreTag)
  THEN [end |-> i + 8, rep |-> PreTag]
  ELSE NoMatch

\* r'(</pre>)</p>' -> r'\1'
UnwrapPreCloseAt(s, i) ==
  IF StartsAt(s, i, PreEndTag \o PClose)
  THEN [end |-> i + 10, rep |-> PreEndTag]
  ELSE NoMatch

\* variant of UnwrapUlOpenAt: the pattern names the wrong list tag,
\* r'<p>(<ol>)'
UnwrapOlOpenAt(s, i) ==
  IF StartsAt(s, i, POpen \o <<"<", "o", "l", ">">>)
  THEN [end |-> i + 7, rep |-> <<"<", "o", "l", ">">>]
  ELSE NoMatch

\* r'<p>(<ul>)' -> r'\1'
UnwrapUlOpenAt(s, i) ==
  IF StartsAt(s, i, POpen \o UlOpen)
  THEN [end |-> i + 7, rep |-> UlOpen]
  ELSE NoMatch

\* r'(</ul>)</p>' -> r'\1'
UnwrapUlCloseAt(s, i) ==
  IF StartsAt(s, i, UlClose \o PClose)
  THEN [end |-> i + 9, rep |-> UlClose]
  ELSE NoMatch

(***************************************************************************)
(* re.sub and the passes of simple_markdown_to_html.                       *)
(***************************************************************************)
\* the patterns in the order of their use
Patterns ==
  <<"code_block", "h3", "h2", "h1",
    "triple", "double", "single", "inline_code",
    "link", "dash_item", "num_item", "list_wrap",
    "list_merge", "para_break", "empty_para", "unwrap_head_open",
    "unwrap_head_close", "unwrap_pre_open", "unwrap_pre_close", "unwrap_ul_open",
    "unwrap_ul_close">>

\* the pattern named pat tried at position i of s
MatchAt(pat, s, i) ==
  CASE pat = "code_block" -> CodeBlockAt(s, i)
    [] pat = "h3" -> H3At(s, i)
    [] pat = "h2" -> H2At(s, i)
    [] pat = "h1" -> H1At(s, i)
    [] pat = "triple" -> TripleAt(s, i)
    [] pat = "double" -> DoubleAt(s, i)
    [] pat = "single" -> SingleAt(s, i)
    [] pat = "inline_code" -> InlineCodeAt(s, i)
    [] pat = "link" -> LinkAt(s, i)
    [] pat = "dash_item" -> DashItemAt(s, i)
    [] pat = "num_item" -> NumItemAt(s, i)
    [] pat = "list_wrap" -> ListWrapAt(s, i)
    [] pat = "list_merge" -> ListMergeAt(s, i)
    [] pat = "para_break" -> ParaBreakAt(s, i)
    [] pat = "empty_para" -> EmptyParaAt(s, i)
    [] pat = "unwrap_head_open" -> UnwrapHeadOpenAt(s, i)
    [] pat = "unwrap_head_close" -> UnwrapHeadCloseAt(s, i)
    [] pat = "unwrap_pre_open" -> UnwrapPreOpenAt(s, i)
    [] pat = "unwrap_pre_close" -> UnwrapPreCloseAt(s, i)
    [] pat = "unwrap_ul_open" -> UnwrapUlOpenAt(s, i)
    [] pat = "unwrap_ul_close" -> UnwrapUlCloseAt(s, i)

\* re.sub(pattern, repl, s) from position i on: the leftmost match is
\* replaced and the scan resumes after it
RECURSIVE ReSubFrom(_, _, _)
ReSubFrom(pat, s, i) ==
  IF i > Len(s) THEN <<>>
  ELSE LET m == MatchAt(pat, s, i)
       IN IF m.end # 0
          THEN m.rep \o ReSubFrom(pat, s, m.end)
          ELSE <<s[i]>> \o ReSubFrom(pat, s, i + 1)

ReSub(pat, s) == ReSubFrom(pat, s, 1)

\* # Code blocks
CodeBlocks(s) == ReSub("code_block", s)

\* # Headers
Headers(s) == ReSub("h1", ReSub("h2", ReSub("h3", s)))

\* variant of BoldItalic: the three substitutions run shortest marker first
BoldItalicSingleFirst(s) == ReSub("triple", ReSub("double", ReSub("single", s)))

\* # Bold and italic
BoldItalic(s) == ReSub("single", ReSub("double", ReSub("triple", s)))

\* # Inline code
InlineCode(s) == ReSub("inline_code", s)

\* # Links
Links(s) == ReSub("link", s)

\* # Lists
Lists(s) ==
  ReSub("list_merge", ReSub("list_wrap", ReSub("num_item", ReSub("dash_item", s))))

\* variant of Paragraphs: the closing tag is not appended
ParagraphsUnclosed(s) == POpen \o ReSub("para_break", s)

\* html = '<p>' + html + '</p>'
Paragraphs(s) == POpen \o ReSub("para_break", s) \o PClose

\* variant of CleanUp: the first substitution is made with count=1, so only
\* the first empty paragraph is removed
CleanUpFirstEmptyOnly(s) ==
  LET hits == {i \in 1..Len(s) : EmptyParaAt(s, i).end # 0}
      first == CHOOSE i \in hits : \A j \in hits : i =< j
      once == IF hits = {} THEN s
              ELSE SubSeq(s, 1, first - 1)
                   \o SubSeq(s, EmptyParaAt(s, first).end, Len(s))
  IN ReSub("unwrap_ul_close",
       ReSub("unwrap_ul_open",
         ReSub("unwrap_pre_close",
           ReSub("unwrap_pre_open",
             ReSub("unwrap_head_close",
               ReSub("unwrap_head_open", once))))))

\* the seven substitutions under "Clean up empty paragraphs"
CleanUp(s) ==
  ReSub("unwrap_ul_close",
    ReSub("unwrap_ul_open",
      ReSub("unwrap_pre_close",
        ReSub("unwrap_pre_open",
          ReSub("unwrap_head_close",
            ReSub("unwrap_head_open",
              ReSub("empty_para", s)))))))

\* simple_markdown_to_html as one function
Convert(s) ==
  CleanUp(Paragraphs(Lists(Links(InlineCode(BoldItalic(Headers(CodeBlocks(s))))))))

(***************************************************************************)
(* simple_markdown_to_html, one step per commented section of the function. *)
(* md is the argument md_content, html the local the passes rewrite, pc the *)
(* section about to run.                                                   *)
(***************************************************************************)
NoFiles == [n \in {} |-> <<>>]

DriverIdle == docs = NoFiles /\ todo = {} /\ site = NoFiles /\ writes = <<>>

\* # Code blocks
StepCodeBlocks ==
  /\ pc = "code_blocks"
  /\ html' = CodeBlocks(html)
  /\ pc' = "headers"
  /\ UNCHANGED <<md, docs, todo, site, writes>>

\* # Headers
StepHeaders ==
  /\ pc = "headers"
  /\ html' = Headers(html)
  /\ pc' = "bold_italic"
  /\ UNCHANGED <<md, docs, todo, site, writes>>

\* # Bold and italic
StepBoldItalic ==
  /\ pc = "bold_italic"
  /\ html' = BoldItalic(html)
  /\ pc' = "inline_code"
  /\ UNCHANGED <<md, docs, todo, site, writes>>

\* # Inline code
StepInlineCode ==
  /\ pc = "inline_code"
  /\ html' = InlineCode(html)
  /\ pc' = "links"
  /\ UNCHANGED <<md, docs, todo, site, writes>>

\* # Links
StepLinks ==
  /\ pc = "links"
  /\ html' = Links(html)
  /\ pc' = "lists"
  /\ UNCHANGED <<md, docs, todo, site, writes>>

\* # Lists
StepLists ==
  /\ pc = "lists"
  /\ html' = Lists(html)
  /\ pc' = "paragraphs"
  /\ UNCHANGED <<md, docs, todo, site, writes>>

\* # Paragraphs
StepParagraphs ==
  /\ pc = "paragraphs"
  /\ html' = Paragraphs(html)
  /\ pc' = "clean_up"
  /\ UNCHANGED <<md, docs, todo, site, writes>>

\* # Clean up empty paragraphs, and the return
StepCleanUp ==
  /\ pc = "clean_up"
  /\ html' = CleanUp(html)
  /\ pc' = "done"
  /\ UNCHANGED <<md, docs, todo, site, writes>>

Next ==
  \/ StepCodeBlocks
  \/ StepHeaders
  \/ StepBoldItalic
  \/ StepInlineCode
  \/ StepLinks
  \/ StepLists
  \/ StepParagraphs
  \/ StepCleanUp

\* the function is entered with html = md_content
Entered(doc) ==
  /\ md = doc
  /\ html = doc
  /\ pc = "code_blocks"
  /\ DriverIdle

(***************************************************************************)
(* main: the loop over docs_dir.glob('*.md') and the landing page.         *)
(* docs maps each file name of the docs directory to its text, todo is the *)
(* part of the glob result not yet visited, site maps each file name of    *)
(* the output directory to the page written there, writes lists the names  *)
(* passed to write_text in order.                                          *)
(***************************************************************************)
LowerCase ==
  <<"a", "b", "c", "d", "e", "f", "g", "h", "i", "j", "k", "l", "m",
    "n", "o", "p", "q", "r", "s", "t", "u", "v", "w", "x", "y", "z">>

UpperCase ==
  <<"A", "B", "C", "D", "E", "F", "G", "H", "I", "J", "K", "L", "M",
    "N", "O", "P", "Q", "R", "S", "T", "U", "V", "W", "X", "Y", "Z">>

IsCased(c) == \E k \in 1..26 : c = LowerCase[k] \/ c = UpperCase[k]

ToUpper(c) ==
  IF \E k \in 1..26 : c = LowerCase[k]
  THEN UpperCase[CHOOSE k \in 1..26 : c = LowerCase[k]]
  ELSE c

ToLower(c) ==
  IF \E k \in 1..26 : c = UpperCase[k]
  THEN LowerCase[CHOOSE k \in 1..26 : c = UpperCase[k]]
  ELSE c

\* str.title(): a cased character is upper-cased when it follows an uncased
\* one (or starts the text) and lower-cased otherwise
TitleCase(s) ==
  [k \in 1..Len(s) |->
     IF k = 1 \/ ~IsCased(s[k - 1]) THEN ToUpper(s[k]) ELSE ToLower(s[k])]

\* str.replace('-', ' ')
DashToSpace(s) == [k \in 1..Len(s) |-> IF s[k] = "-" THEN " " ELSE s[k]]

\* str.rfind('.'): the last position of a dot, 0 when there is none
RECURSIVE LastDot(_, _)
LastDot(name, k) ==
  IF k = 0 THEN 0 ELSE IF name[k] = "." THEN k ELSE LastDot(name, k - 1)

\* PurePath.suffix: the text from the last dot on, unless that dot is the
\* first or the last character of the name
Suffix(name) ==
  LET d == LastDot(name, Len(name))
  IN IF 1 < d /\ d < Len(name) THEN SubSeq(name, d, Len(name)) ELSE <<>>

\* PurePath.stem
Stem(name) == SubSeq(name, 1, Len(name) - Len(Suffix(name)))

\* PurePath.with_suffix(suffix).name
WithSuffix(name, suffix) == Stem(name) \o suffix

DotMd == <<".", "m", "d">>
DotHtml == <<".", "h", "t", "m", "l">>
ReadmeMd == <<"R", "E", "A", "D", "M", "E", ".", "m", "d">>
IndexHtml == <<"i", "n", "d", "e", "x", ".", "h", "t", "m", "l">>

\* docs_dir.glob('*.md'): the names that end in .md
Glob(dir) ==
  {n \in DOMAIN dir : Len(n) >= 3 /\ SubSeq(n, Len(n) - 2, Len(n)) = DotMd}

\* re.search(r'<h1>(.*?)</h1>', html_content): the position of the first
\* match, 0 when there is none
RECURSIVE TitleSearch(_, _)
TitleSearch(s, i) ==
  IF i > Len(s) THEN 0
  ELSE IF StartsAt(s, i, H1Open) /\ FindLazy(s, i + 4, H1Close, FALSE) # 0
  THEN i
  ELSE TitleSearch(s, i + 1)

\* title_match.group(1) if title_match else md_file.stem.replace('-', ' ').title()
TitleOf(name, fragment) ==
  LET i == TitleSearch(fragment, 1)
  IN IF i # 0
     THEN SubSeq(fragment, i + 4, FindLazy(fragment, i + 4, H1Close, FALSE) - 1)
     ELSE TitleCase(DashToSpace(Stem(name)))

\* create_html_page: the fixed page shell around the two interpolated
\* values, the title and the fragment
CreateHtmlPage(title, content) == [title |-> title, content |-> content]

\* the hand-written fragment of the landing page (its text is a literal of
\* main and does not pass through simple_markdown_to_html)
IndexContent == <<"i", "n", "d", "e", "x">>

\* 'GitHub Projects for Obsidian'
IndexTitle ==
  <<"G", "i", "t", "H", "u", "b", " ", "P", "r", "o", "j", "e", "c", "t", "s",
    " ", "f", "o", "r", " ", "O", "b", "s", "i", "d", "i", "a", "n">>

\* output_file.write_text(page)
WriteText(dir, name, page) ==
  [n \in DOMAIN dir \cup {name} |-> IF n = name THEN page ELSE dir[n]]

\* one iteration of the for loop (glob yields the names in no fixed order)
ConvertFile ==
  /\ pc = "main_loop"
  /\ \E f \in todo :
       /\ todo' = todo \ {f}
       /\ IF f = ReadmeMd
          THEN UNCHANGED <<site, writes>>
          ELSE LET html_content == Convert(docs[f])
                   title == TitleOf(f, html_content)
                   output_file == WithSuffix(f, DotHtml)
               IN /\ site' = WriteText(site, output_file,
                                       CreateHtmlPage(title, html_content))
                  /\ writes' = Append(writes, output_file)
  /\ UNCHANGED <<md, html, pc, docs>>

\* the statements after the loop
WriteIndex ==
  /\ pc = "main_loop"
  /\ todo = {}
  /\ site' = WriteText(site, IndexHtml, CreateHtmlPage(IndexTitle, IndexContent))
  /\ writes' = Append(writes, IndexHtml)
  /\ pc' = "main_done"
  /\ UNCHANGED <<md, html, docs, todo>>

MainNext == ConvertFile \/ WriteIndex

\* main is entered with the docs directory dir and an empty output directory
MainEntered(dir) ==
  /\ docs = dir
  /\ todo = Glob(dir)
  /\ site = NoFiles
  /\ writes = <<>>
  /\ pc = "main_loop"
  /\ md = <<>>
  /\ html = <<>>

(***************************************************************************)
(* Input documents: concatenations of at most n pieces of a vocabulary.    *)
(***************************************************************************)
RECURSIVE Flatten(_)
Flatten(ts) == IF ts = <<>> THEN <<>> ELSE Head(ts) \o Flatten(Tail(ts))

Texts(vocab, n) ==
  {Flatten(ts) : ts \in UNION {[1..k -> vocab] : k \in 0..n}}

\* documents of any shape, literal tags included
MaxPieces == 3

Pieces ==
  {<<"a">>, <<" ">>, <<"\n">>, <<"#", " ">>, <<"#", "#", " ">>, <<"-", " ">>,
   <<"1", ".", " ">>, <<"*">>, Fence, POpen, PClose, H1Open}

Init == \E doc \in Texts(Pieces, MaxPieces) : Entered(doc)

Spec == Init /\ [][Next]_vars

\* one fenced block: fence, optional language tag, newline, body, fence
MaxFenceBody == 3

FenceBodyPieces ==
  {<<"a">>, <<"*">>, <<"[">>, <<"]", "(">>, <<")">>, <<"-", " ">>, <<"\n">>}

LangTags == {<<>>, <<"p", "y">>}

InitFence ==
  \E lang \in LangTags, body \in Texts(FenceBodyPieces, MaxFenceBody) :
    Entered(Fence \o lang \o Newline \o body \o Fence)

SpecFence == InitFence /\ [][Next]_vars

\* n dash-prefixed lines separated by single newlines
MaxItems == 3

MaxItemLen == 1

ItemPieces == {<<"a">>, <<" ">>}

RECURSIVE DashLines(_)
DashLines(items) ==
  IF Len(items) = 1 THEN <<"-", " ">> \o items[1]
  ELSE <<"-", " ">> \o items[1] \o Newline \o DashLines(Tail(items))

InitList ==
  \E n \in 1..MaxItems :
    \E items \in [1..n -> Texts(ItemPieces, MaxItemLen)] :
      Entered(DashLines(items))

SpecList == InitList /\ [][Next]_vars

\* blank documents, and documents with one visible character among the blanks
MaxBlank == 5

BlankPieces == {<<" ">>, <<"\n">>, <<"\t">>, <<"a">>}

InitBlank == \E doc \in Texts(BlankPieces, MaxBlank) : Entered(doc)

SpecBlank == InitBlank /\ [][Next]_vars

\* a triple-marker span that is the whole document
MaxSpan == 3

SpanPieces == {<<"a">>, <<" ">>, <<"-">>, <<"\n">>}

TripleMarker == <<"*", "*", "*">>

InitSpan ==
  \E x \in Texts(SpanPieces, MaxSpan) :
    Entered(TripleMarker \o x \o TripleMarker)

SpecSpan == InitSpan /\ [][Next]_vars

\* '# ' + Title, a blank line, then the body
MaxTitle == 2

MaxBody == 3

TitlePieces == {<<"a">>, <<" ">>, <<"b">>}

BodyPieces == {<<"a">>, <<" ">>, <<"\n">>}

InitHeading ==
  \E title \in Texts(TitlePieces, MaxTitle), body \in Texts(BodyPieces, MaxBody) :
    Entered(<<"#", " ">> \o title \o BlankLine \o body)

SpecHeading == InitHeading /\ [][Next]_vars

\* a docs directory holding any of these files, each with one of two texts
FileNames ==
  {<<"i", "n", "d", "e", "x", ".", "m", "d">>,
   ReadmeMd,
   <<"u", "s", "e", "r", "-", "g", "u", "i", "d", "e", ".", "m", "d">>,
   <<"a", "p", "i", ".", "m", "d">>,
   <<"n", "o", "t", "e", "s", ".", "t", "x", "t">>}

SampleDocs == {<<"#", " ", "T">>, <<"a">>}

InitMain ==
  \E names \in SUBSET FileNames :
    \E dir \in [names -> SampleDocs] : MainEntered(dir)

SpecMain == InitMain /\ [][MainNext]_vars

(***************************************************************************)
(* Vocabulary of the properties.                                           *)
(***************************************************************************)
Contains(s, t) == \E i \in 1..Len(s) : StartsAt(s, i, t)

Count(s, t) == Cardinality({i \in 1..Len(s) : StartsAt(s, i, t)})

HasChar(s, c) == \E i \in 1..Len(s) : s[i] = c

IsBlank(s) == \A i \in 1..Len(s) : s[i] \in Whitespace

FirstNewline(s) == LineEnd(s, 1)

BlockOpenTags == {H1Open, H2Open, H3Open, PreTag, UlOpen}

BlockCloseTags == {H1Close, H2Close, H3Close, PreEndTag, UlClose}

\* nesting depth of paragraph tags after position i, -1 once a closing tag
\* has no open paragraph to close
RECURSIVE ParaDepth(_, _, _)
ParaDepth(s, i, d) ==
  IF i > Len(s) THEN d
  ELSE IF StartsAt(s, i, POpen) THEN ParaDepth(s, i + 3, d + 1)
  ELSE IF StartsAt(s, i, PClose)
       THEN IF d = 0 THEN -1 ELSE ParaDepth(s, i + 4, d - 1)
  ELSE ParaDepth(s, i + 1, d)

Balanced(s) == ParaDepth(s, 1, 0) = 0

\* no position of s where the pattern named pat matches
Unmatched(pat, s) == \A i \in 1..Len(s) : MatchAt(pat, s, i).end = 0

\* no pattern of the function matches the document
NoMarkup(s) == \A k \in 1..Len(Patterns) : Unmatched(Patterns[k], s)

\* the parts of the structured documents
FenceBodyOf(doc) == SubSeq(doc, FirstNewline(doc) + 1, Len(doc) - 3)

SpanOf(doc) == SubSeq(doc, 4, Len(doc) - 3)

HeadingTitleOf(doc) == SubSeq(doc, 3, FirstNewline(doc) - 1)

HeadingBodyOf(doc) == SubSeq(doc, FirstNewline(doc) + 2, Len(doc))

(***************************************************************************)
(* Properties.                                                             *)
(***************************************************************************)
\* C1 (SpecFence): once the fenced-code pass has run, the fragment holds the
\* body of the fenced block verbatim between <pre><code> and </code></pre>,
\* and every later pass leaves it so.
FenceProtection ==
  pc # "code_blocks" =>
    Contains(html, PreOpen \o FenceBodyOf(md) \o PreClose)

\* C2 as stated (Spec): for every document the returned fragment has no <p>
\* directly followed by the opening tag of a heading, <pre> or <ul>.
NoParagraphAroundBlock ==
  pc = "done" => \A b \in BlockOpenTags : ~Contains(html, POpen \o b)

\* C2 amended (Spec): for every document without the character '<', the
\* returned fragment has no <p> directly followed by the opening tag of a
\* heading, <pre> or <ul>, and no closing tag of such a block directly
\* followed by </p>.
NoParagraphAroundBlockPlain ==
  (pc = "done" /\ ~HasChar(md, "<")) =>
    /\ \A b \in BlockOpenTags : ~Contains(html, POpen \o b)
    /\ \A b \in BlockCloseTags : ~Contains(html, b \o PClose)

NoParagraphAroundBlockPlainWitness ==
  /\ pc = "done"
  /\ md = <<"#", " ", "\n", "-", " ">>
  /\ html = H1Open \o H1Close \o Newline \o UlOpen \o LiOpen \o LiClose \o UlClose

\* C3 as stated (Spec): the cleanup step applied to its own result changes
\* nothing, whatever the fragment.
NormalizeIdempotent == pc = "done" => CleanUp(html) = html

\* C3 amended (Spec): the cleanup step applied to its own result changes
\* nothing when the fragment comes from a document without the character '<'.
NormalizeIdempotentPlain ==
  (pc = "done" /\ ~HasChar(md, "<")) => CleanUp(html) = html

NormalizeIdempotentPlainWitness ==
  /\ pc = "done"
  /\ md = <<"\n", "\n", "#", " ">>
  /\ html = H1Open \o H1Close
  /\ CleanUp(html) = html

\* C4 (SpecList): n dash-prefixed lines give exactly one <ul> container, at
\* the top level of the fragment, that wraps exactly n <li> elements.
ListGrouping ==
  pc = "done" =>
    /\ Count(html, UlOpen) = 1
    /\ Count(html, UlClose) = 1
    /\ StartsAt(html, 1, UlOpen)
    /\ StartsAt(html, Len(html) - 4, UlClose)
    /\ Count(html, LiOpen) = Count(md, Newline) + 1
    /\ Count(html, LiClose) = Count(md, Newline) + 1

ListGroupingWitness ==
  /\ pc = "done"
  /\ md = <<"-", " ", "a", "\n", "-", " ", " ", "\n", "-", " ">>
  /\ Count(html, UlOpen) = 1
  /\ Count(html, LiOpen) = 3

\* C5 (SpecBlank): an empty or whitespace-only document converts to the
\* empty fragment.
BlankInput == (pc = "done" /\ IsBlank(md)) => html = <<>>

BlankInputWitness ==
  /\ pc = "done"
  /\ md = <<"\n", "\n", " ", "\n", "\n">>
  /\ html = <<>>

\* C6 as stated (Spec): a document that no pattern matches converts to
\* '<p>' + document + '</p>'.
PassThrough ==
  (pc = "done" /\ NoMarkup(md)) => html = POpen \o md \o PClose

\* C6 amended (Spec): a document that no pattern matches, that has a
\* non-whitespace character and that has no character '<', converts to
\* '<p>' + document + '</p>'.
PassThroughText ==
  (pc = "done" /\ NoMarkup(md) /\ ~IsBlank(md) /\ ~HasChar(md, "<")) =>
    html = POpen \o md \o PClose

PassThroughTextWitness ==
  /\ pc = "done"
  /\ md = <<"a", " ", "*">>
  /\ NoMarkup(md)
  /\ html = POpen \o md \o PClose

\* C7 as stated (SpecSpan): the document '***x***', x without '*', converts
\* to <p><strong><em>x</em></strong></p> and the fragment has no '*' left.
EmphasisPrecedence ==
  pc = "done" =>
    /\ html = POpen \o StrongOpen \o EmOpen \o SpanOf(md)
              \o EmClose \o StrongClose \o PClose
    /\ ~HasChar(html, "*")

\* C7 amended (SpecSpan): the document '***x***', x without '*' and without
\* a line break, converts to <p><strong><em>x</em></strong></p> and the
\* fragment has no '*' left.
EmphasisPrecedenceOneLine ==
  (pc = "done" /\ ~HasChar(SpanOf(md), "\n")) =>
    /\ html = POpen \o StrongOpen \o EmOpen \o SpanOf(md)
              \o EmClose \o StrongClose \o PClose
    /\ ~HasChar(html, "*")

EmphasisPrecedenceOneLineWitness ==
  /\ pc = "done"
  /\ md = TripleMarker \o <<"a", " ", "-">> \o TripleMarker
  /\ html = POpen \o StrongOpen \o EmOpen \o <<"a", " ", "-">>
            \o EmClose \o StrongClose \o PClose

\* C8 (SpecHeading): for '# ' + Title, a blank line, then the body, the
\* fragment starts with <h1>Title</h1> outside any paragraph, and a body
\* that is one paragraph of text follows as <p>body</p>.
HeadingExtraction ==
  pc = "done" =>
    LET heading == H1Open \o HeadingTitleOf(md) \o H1Close
        body == HeadingBodyOf(md)
    IN /\ StartsAt(html, 1, heading)
       /\ (~IsBlank(body) /\ ~Contains(body, BlankLine)) =>
            html = heading \o POpen \o body \o PClose

HeadingExtractionWitness ==
  /\ pc = "done"
  /\ md = <<"#", " ", "a", "b", "\n", "\n", "a", "\n", "a">>
  /\ html = H1Open \o <<"a", "b">> \o H1Close
            \o POpen \o <<"a", "\n", "a">> \o PClose

\* C9 (SpecMain): the names passed to write_text in one run of main are
\* pairwise distinct.
DistinctTargets ==
  \A i, j \in 1..Len(writes) : i # j => writes[i] # writes[j]

\* C10 (Spec): for every document without the character '<', the returned
\* fragment has as many <p> as </p> and every </p> closes an open <p>.
ParagraphsBalanced ==
  (pc = "done" /\ ~HasChar(md, "<")) => Balanced(html)

====
